---- MODULE Spec2Model ----
(***************************************************************************)
(* Model of the voice agent bridge (backend/main.py and backend/tools).    *)
(*                                                                         *)
(* One session: run_agent acquires the two audio devices, connects, sends  *)
(* the configuration document, starts audio_sender and audio_receiver as   *)
(* two asyncio tasks and gathers them; the finally block releases the      *)
(* devices.  audio_receiver hands FunctionCallRequest messages to          *)
(* _handle_function_call_request, which calls the capabilities of          *)
(* FUNCTION_MAP and writes one reply per entry to the shared connection.   *)
(*                                                                         *)
(* All coroutines run on one event loop: a step of the model is the code   *)
(* a task runs between two awaits.                                         *)
(***************************************************************************)
EXTENDS Integers, Sequences, FiniteSets, TLC

(***************************************************************************)
(* Bounds of the model.                                                    *)
(***************************************************************************)
\* what the environment delivers in one session: frames of the input device,
\* inbound messages, and the function call entries in them, counted together
MaxEvents == 4
\* the largest magnitude of a numerator or denominator the model computes
\* exactly; what exceeds it is kept as BigV or InexactV
MaxInt == 1000000000
\* the nesting of operators in the expressions calculate is called with
MaxNesting == 2
\* the transactions the backend hands out to one _fetch_transactions
MaxCollected == 3

(***************************************************************************)
(* Program constants.                                                      *)
(***************************************************************************)
\* calculator.py:21  depth > 20
MaxDepth == 20
\* calculator.py:41  abs(left) > 1e6
MaxBase == 1000000
\* calculator.py:41  abs(right) > 12
MaxExponent == 12

(***************************************************************************)
(* Python values.  Numbers are exact rationals n/d with d >= 1 in lowest   *)
(* terms, tagged with their Python type; the complex numbers op.pow        *)
(* returns for a negative base and a fractional exponent, and the floats   *)
(* with no exact rational value, carry only their tag.                     *)
(***************************************************************************)
IntV(n) == [t |-> "int", n |-> n, d |-> 1]

Abs(x) == IF x < 0 THEN -x ELSE x

RECURSIVE Gcd(_, _)
Gcd(a, b) == IF b = 0 THEN a ELSE Gcd(b, a % b)

FloatV(n, d) ==
    LET g == Gcd(Abs(n), Abs(d))
        s == IF d < 0 THEN -1 ELSE 1
    IN  [t |-> "float", n |-> (s * n) \div g, d |-> (s * d) \div g]

ComplexV == [t |-> "complex", n |-> 0, d |-> 1]

\* a real number whose value the model does not follow
InexactV == [t |-> "inexact", n |-> 0, d |-> 1]

\* a real number of magnitude above MaxInt, of sign s
BigV(s) == [t |-> "big", n |-> s, d |-> 1]

NoneV == [t |-> "None", n |-> 0, d |-> 1]

StrV == [t |-> "str", n |-> 0, d |-> 1]

BoolV(b) == [t |-> "bool", n |-> IF b THEN 1 ELSE 0, d |-> 1]

Exact(v) == v.t \in {"int", "float", "bool"}

\* the result type of a binary arithmetic operator on two numbers
Arith(a, b, n, d) ==
    IF a.t \in {"int", "bool"} /\ b.t \in {"int", "bool"} /\ d = 1
    THEN IntV(n) ELSE FloatV(n, d)

Ok(v) == [ok |-> TRUE, v |-> v, err |-> ""]

Raise(msg) == [ok |-> FALSE, v |-> IntV(0), err |-> msg]

Sign(x) == IF x < 0 THEN -1 ELSE 1

\* x * y is at most MaxInt in magnitude
Fits(x, y) == x = 0 \/ y = 0 \/ Abs(x) <= MaxInt \div Abs(y)

\* b ** e for b >= 0 and e >= 0, or 0 - 1 when it exceeds MaxInt
RECURSIVE IPow(_, _)
IPow(b, e) ==
    IF e = 0 THEN 1
    ELSE LET r == IPow(b, e - 1)
         IN  IF r < 0 \/ ~Fits(r, b) THEN 0 - 1 ELSE r * b

\* the value n/d of an operator on a and b, n and d within twice MaxInt
Within(a, b, n, d) ==
    IF Abs(n) <= MaxInt /\ d <= MaxInt THEN Arith(a, b, n, d)
    ELSE IF d = 1 THEN BigV(Sign(n)) ELSE InexactV

\* the value of an operator whose exact value exceeds what the model computes
Beyond(a, b, s) == IF a.d = 1 /\ b.d = 1 THEN BigV(s) ELSE InexactV

\* floor(n / d) for d > 0
FloorDiv(n, d) == IF n >= 0 THEN n \div d ELSE -(((-n) + d - 1) \div d)

(***************************************************************************)
(* calculator.py: the operators of _ALLOWED_BIN_OPS and _ALLOWED_UNARY_OPS *)
(* on the values above.  A complex or inexact operand makes the result     *)
(* complex or inexact.                                                     *)
(***************************************************************************)
op_pow(a, b) ==
    IF b.d = 1
    THEN LET e == Abs(b.n)
             n == IPow(Abs(a.n), e)
             d == IPow(a.d, e)
             s == IF a.n < 0 /\ e % 2 = 1 THEN -1 ELSE 1
         IN  IF b.n >= 0
             THEN IF n < 0 \/ d < 0 THEN Ok(Beyond(a, b, s))
                  ELSE Ok(Arith(a, b, s * n, d))
             ELSE IF a.n = 0
                  THEN Raise("0.0 cannot be raised to a negative power")
                  ELSE IF n < 0 \/ d < 0 THEN Ok(InexactV)
                  ELSE Ok(FloatV(s * d, n))
    ELSE IF a.n < 0 THEN Ok(ComplexV)
         ELSE IF a.n = 0 THEN Ok(FloatV(0, 1))
         ELSE Ok(InexactV)

_ALLOWED_BIN_OPS(o, a, b) ==
    IF ~Exact(a) \/ ~Exact(b)
    THEN IF "complex" \in {a.t, b.t}
         THEN IF o = "Mod" THEN Raise("unsupported operand type(s) for %")
              ELSE Ok(ComplexV)
         ELSE Ok(InexactV)
    ELSE CASE o \in {"Add", "Sub"} ->
                IF Fits(a.n, b.d) /\ Fits(b.n, a.d) /\ Fits(a.d, b.d)
                THEN Ok(Within(a, b,
                               IF o = "Add" THEN a.n * b.d + b.n * a.d
                               ELSE a.n * b.d - b.n * a.d,
                               a.d * b.d))
                ELSE Ok(InexactV)
           [] o = "Mult" ->
                IF Fits(a.n, b.n) /\ Fits(a.d, b.d)
                THEN Ok(Arith(a, b, a.n * b.n, a.d * b.d))
                ELSE Ok(Beyond(a, b, Sign(a.n) * Sign(b.n)))
           [] o = "Div"  ->
                IF b.n = 0 THEN Raise("division by zero")
                ELSE IF Fits(a.n, b.d) /\ Fits(a.d, b.n)
                THEN Ok(FloatV(a.n * b.d, a.d * b.n))
                ELSE Ok(InexactV)
           [] o = "Mod"  ->
                IF b.n = 0 THEN Raise("modulo by zero")
                ELSE IF Fits(a.n, b.d) /\ Fits(b.n, a.d) /\ Fits(a.d, b.d)
                THEN LET x == a.n * b.d
                         y == b.n * a.d
                         t == IF y < 0 THEN -1 ELSE 1
                         q == FloorDiv(t * x, t * y)
                     IN  Ok(Arith(a, b, x - q * y, a.d * b.d))
                ELSE Ok(InexactV)
           [] o = "Pow"  -> op_pow(a, b)

_ALLOWED_UNARY_OPS(o, a) ==
    IF a.t = "big" THEN (IF o = "USub" THEN BigV(-a.n) ELSE a)
    ELSE IF ~Exact(a) THEN a
    ELSE LET x == IF a.t = "bool" THEN IntV(a.n) ELSE a
         IN  IF o = "USub" THEN [x EXCEPT !.n = -x.n] ELSE x

BinOps == {"Add", "Sub", "Mult", "Div", "Mod", "Pow"}

UnaryOps == {"UAdd", "USub"}

\* x > bound, with no abs()
MagnitudeAbove_signed(v, bound) ==
    IF Exact(v) THEN Fits(bound, v.d) /\ v.n > bound * v.d
    ELSE v.t = "big" /\ v.n > 0

\* abs(x) > bound, for a bound that is an integer
MagnitudeAbove(v, bound) ==
    IF Exact(v) THEN Fits(bound, v.d) /\ Abs(v.n) > bound * v.d
    ELSE v.t = "big"

\* the model follows the magnitude of v
Tracked(v) == Exact(v) \/ v.t = "big"

(***************************************************************************)
(* calculator.py: _safe_eval_node on the tree ast.parse returns.  A node   *)
(* is a record [node, op, value, args]: Constant carries its value,        *)
(* UnaryOp and BinOp their operator and operand nodes, and every other     *)
(* node class (Name, Call, Attribute, ...) only its class name.            *)
(***************************************************************************)
RECURSIVE _safe_eval_node(_, _)
_safe_eval_node(node, depth) ==
    IF depth > MaxDepth THEN Raise("Expression too complex")
    ELSE IF node.node = "Expression"
    THEN _safe_eval_node(node.args[1], depth + 1)
    ELSE IF node.node = "Constant"
    THEN IF node.value.t \in {"int", "float", "bool", "inexact", "big"}
         THEN Ok(node.value)
         ELSE Raise("Only numbers are allowed")
    ELSE IF node.node = "UnaryOp" /\ node.op \in UnaryOps
    THEN LET operand == _safe_eval_node(node.args[1], depth + 1)
         IN  IF ~operand.ok THEN operand
             ELSE Ok(_ALLOWED_UNARY_OPS(node.op, operand.v))
    ELSE IF node.node = "BinOp" /\ node.op \in BinOps
    THEN LET left == _safe_eval_node(node.args[1], depth + 1)
         IN  IF ~left.ok THEN left
             ELSE LET right == _safe_eval_node(node.args[2], depth + 1)
                  IN  IF ~right.ok THEN right
                      ELSE IF node.op = "Pow"
                              /\ (MagnitudeAbove(left.v, MaxBase)
                                  \/ MagnitudeAbove(right.v, MaxExponent))
                      THEN Raise("Exponent too large")
                      ELSE _ALLOWED_BIN_OPS(node.op, left.v, right.v)
    ELSE Raise("Unsupported expression")

\* AST constructors
Constant(v) == [node |-> "Constant", op |-> "", value |-> v, args |-> <<>>]

UnaryOp(o, x) == [node |-> "UnaryOp", op |-> o, value |-> StrV, args |-> <<x>>]

BinOp(l, o, r) == [node |-> "BinOp", op |-> o, value |-> StrV, args |-> <<l, r>>]

Expression(b) == [node |-> "Expression", op |-> "", value |-> StrV, args |-> <<b>>]

\* an identifier, a call f(x) and an attribute access x.a
Name == [node |-> "Name", op |-> "", value |-> StrV, args |-> <<>>]

Call(x) == [node |-> "Call", op |-> "", value |-> StrV, args |-> <<x>>]

Attribute(x) == [node |-> "Attribute", op |-> "", value |-> StrV, args |-> <<x>>]

(***************************************************************************)
(* Python values the capabilities receive.  A str is modelled by what      *)
(* ast.parse makes of it: blank, a syntax error, or a tree; the operator   *)
(* "Caret" of a tree is the character ^ of the text, which Python would    *)
(* parse as BitXor.                                                        *)
(***************************************************************************)
NoTree == Constant(StrV)

PyNone == [py |-> "None", text |-> "", tree |-> NoTree]

PyBlank == [py |-> "str", text |-> "blank", tree |-> NoTree]

PySyntaxError == [py |-> "str", text |-> "syntax_error", tree |-> NoTree]

PyExpr(tree) == [py |-> "str", text |-> "expr", tree |-> tree]

PyOther == [py |-> "int", text |-> "", tree |-> NoTree]

\* a word, which ast.parse reads as an identifier
PyStr(text) == [py |-> "str", text |-> text, tree |-> Name]

\* a date YYYY-MM-DD, which ast.parse rejects
PyDate(text) == [py |-> "str", text |-> text, tree |-> NoTree]

\* a key that a JSON object does not have
Absent == [py |-> "absent", text |-> "", tree |-> NoTree]

\* Python truthiness of the values above (PyOther is a non-zero number)
Truthy(v) == v.py = "int" \/ (v.py = "str" /\ v.text # "blank")

\* calculator.py:59  expr.replace("^", "**")
RECURSIVE replace_caret(_)
replace_caret(node) ==
    [node EXCEPT !.op = IF @ = "Caret" THEN "Pow" ELSE @,
                 !.args = [i \in DOMAIN @ |-> replace_caret(@[i])]]

(***************************************************************************)
(* Tool Results: {"result": v}, {"error": msg}, {"transactions_file": p}   *)
(* or the bare summary string of get_financial_info.  about is the part of *)
(* an error message that quotes a name of the request.                     *)
(***************************************************************************)
ToolResult(key, v, msg, about) == [key |-> key, v |-> v, msg |-> msg, about |-> about]

ResultOf(v) == ToolResult("result", v, "", "")

ErrorOf(msg) == ToolResult("error", IntV(0), msg, "")

\* calculator.py:48-67
calculate(expression) ==
    IF expression.py \notin {"str", "None"} /\ Truthy(expression)
    THEN ErrorOf("object has no attribute 'strip'")
    ELSE IF ~Truthy(expression) \/ expression.text = "blank"
    THEN ErrorOf("Empty expression")
    ELSE IF expression.text # "expr" /\ expression.tree = NoTree
    THEN ErrorOf("invalid syntax")
    ELSE LET tree == Expression(replace_caret(expression.tree))
             result == _safe_eval_node(tree, 0)
          \* (lines 62-64 turn -0.0 into 0.0: the rationals have one zero)
         IN  IF result.ok THEN ResultOf(result.v) ELSE ErrorOf(result.err)

(***************************************************************************)
(* plaid_tool.py: get_financial_info catches every Exception of its body   *)
(* and returns one of its three shapes; which one is decided by the        *)
(* environment (tokens, dates, the Plaid backend), here the parameter      *)
(* backend.                                                                *)
(***************************************************************************)
\* plaid_tool.py:53-58  the accounts (two of the four of FRIENDLY_TO_ENV)
Accounts == {"discover", "pnc"}

\* the environment of a call: whether the Plaid client can be made, the
\* accounts that have a token, the accounts whose fetch fails, and whether
\* the transactions file can be written
Backends ==
    [client : BOOLEAN, tokens : SUBSET Accounts, down : SUBSET Accounts, disk : BOOLEAN]

Healthy == [client |-> TRUE, tokens |-> Accounts, down |-> {}, disk |-> TRUE]

\* the backends a session meets: healthy, every fetch failing, no client
GfiOutcomes ==
    {Healthy, [Healthy EXCEPT !.down = Accounts], [Healthy EXCEPT !.client = FALSE]}

\* plaid_tool.py:68-80  "all", the canonical name, or None (here "")
_normalize_account_name(name) ==
    IF name.py = "str" /\ name.text \in Accounts \cup {"all"} THEN name.text ELSE ""

\* plaid_tool.py:83-126  for a single name; a value that is no str is
\* iterated, which raises TypeError for None and for a number
_resolve_selected_accounts(account_names, tokens) ==
    IF account_names.py # "str"
    THEN [ok |-> FALSE, selected |-> {}, err |-> "object is not iterable"]
    ELSE LET norm == _normalize_account_name(account_names)
             resolved == IF norm = "all" THEN tokens
                         ELSE IF norm \in tokens THEN {norm} ELSE {}
         IN  IF resolved = {}
             THEN [ok |-> FALSE, selected |-> {}, err |-> "No accounts resolved"]
             ELSE [ok |-> TRUE, selected |-> resolved, err |-> ""]

Dates == {"2024-01-01", "2024-02-01"}

\* plaid_tool.py:157-163  day is 0 for None
_parse_date(d) ==
    IF ~Truthy(d) THEN [ok |-> TRUE, day |-> 0]
    ELSE IF d.py = "str" /\ d.text \in Dates
    THEN [ok |-> TRUE, day |-> IF d.text = "2024-01-01" THEN 1 ELSE 2]
    ELSE [ok |-> FALSE, day |-> 0]

\* the value of a parameter: a key that is absent is the default None
Param(kv, k) == IF kv[k] = Absent THEN PyNone ELSE kv[k]

\* plaid_tool.py:267-359  a summary or a file that holds the error of a
\* failed fetch says so in msg
get_financial_info(kv, backend) ==
    LET selected == _resolve_selected_accounts(Param(kv, "account_names"), backend.tokens)
        request_type == Param(kv, "request_type")
        start_d == _parse_date(Param(kv, "start_date"))
        end_d == _parse_date(Param(kv, "end_date"))
        failed == selected.selected \cap backend.down # {}
    IN  IF ~backend.client
        THEN ErrorOf("PLAID_CLIENT_ID and PLAID_SECRET must be set in environment")
        ELSE IF ~selected.ok THEN ErrorOf(selected.err)
        ELSE IF Truthy(request_type) /\ request_type.py # "str"
        THEN ErrorOf("object has no attribute 'strip'")
        ELSE IF request_type.text \notin {"balance", "transactions"}
        THEN ErrorOf("Invalid request_type")
        ELSE IF request_type.text = "balance"
        THEN ToolResult("text", StrV,
                        IF failed THEN "error fetching balances" ELSE "", "")
        ELSE IF ~start_d.ok \/ ~end_d.ok
        THEN ErrorOf("Dates must be in YYYY-MM-DD format")
        ELSE IF start_d.day > 0 /\ end_d.day > 0 /\ start_d.day > end_d.day
        THEN ErrorOf("start_date must be on or before end_date")
        ELSE IF ~backend.disk THEN ErrorOf("cannot write the transactions file")
        ELSE ToolResult("transactions_file", StrV,
                        IF failed THEN "error fetching transactions" ELSE "", "")

(***************************************************************************)
(* json.dumps and json.loads.  An encoded value is a text, distinct from   *)
(* the value; a complex number has no encoding (json.dumps raises          *)
(* TypeError).                                                             *)
(***************************************************************************)
Serializable(result) == result.v.t # "complex"

json_dumps(x) == [json |-> x]

json_loads(text) == text.json

(***************************************************************************)
(* function_mapper.py: FUNCTION_MAP, and how Python binds a call to the    *)
(* parameters of each capability.                                          *)
(***************************************************************************)
FUNCTION_MAP == {"calculate", "get_financial_info"}

\* JSON objects are functions on Keys; a key the object lacks maps to Absent
Keys == {"expression", "query", "input", "account_names", "request_type",
         "start_date", "end_date"}

NoKeys == [k \in Keys |-> Absent]

KeysOf(kv) == {k \in Keys : kv[k] # Absent}

\* f(**arguments) binds: arguments is a mapping whose keys fit the signature
BindsKw(name, arguments) ==
    /\ arguments.t = "obj"
    /\ IF name = "calculate"
       THEN KeysOf(arguments.kv) = {"expression"}
       ELSE /\ {"account_names", "request_type"} \subseteq KeysOf(arguments.kv)
            /\ KeysOf(arguments.kv) \subseteq
                 {"account_names", "request_type", "start_date", "end_date"}

\* f(expr) binds: calculate takes one parameter, get_financial_info needs two
BindsPos(name) == name = "calculate"

JsonObj(kv) == [t |-> "obj", kv |-> kv]

JsonList == [t |-> "list", kv |-> NoKeys]

\* the arguments field of an entry: a JSON text or a text json.loads rejects
ArgText(value) == [valid |-> TRUE, value |-> value]

ArgGarbage == [valid |-> FALSE, value |-> JsonObj(NoKeys)]

\* main.py:80  arguments.get("expression") or .get("query") or .get("input")
Get(kv, k) == IF kv[k] # Absent THEN kv[k] ELSE PyNone

FallbackExpr(kv) ==
    IF Truthy(Get(kv, "expression")) THEN Get(kv, "expression")
    ELSE IF Truthy(Get(kv, "query")) THEN Get(kv, "query")
    ELSE Get(kv, "input")

(***************************************************************************)
(* main.py: the messages of the connection.  A text message is the         *)
(* json.dumps of an object; a binary message is an audio frame, named by   *)
(* the number of the read that produced it.                                *)
(***************************************************************************)
NoBody == json_dumps([type |-> "none"])

BinaryMsg(n) == [kind |-> "binary", frame |-> n, body |-> NoBody]

TextMsg(obj) == [kind |-> "text", frame |-> 0, body |-> json_dumps(obj)]

\* main.py:24-39, 131  the Configuration Document of load_config
config_message == [type |-> "Settings"]

\* main.py:56-62
_create_function_call_response(func_id, func_name, result) ==
    [type |-> "FunctionCallResponse", id |-> func_id, name |-> func_name,
     content |-> json_dumps(result)]

\* a send that hands the message to the transport in two writes
send_writes_split(message) ==
    << [msg |-> message, part |-> 1, of |-> 2], [msg |-> message, part |-> 2, of |-> 2] >>

\* one await ws.send(message) (main.py:53, 86, 93, 132) hands the whole
\* message to the transport in a single write
send_writes(message) == << [msg |-> message, part |-> 1, of |-> 1] >>

(***************************************************************************)
(* The Function Call entries the remote agent sends.                       *)
(***************************************************************************)
Entry(id, name, arguments) ==
    [object |-> TRUE, id |-> id, name |-> name, arguments |-> arguments]

With(k, v) == [NoKeys EXCEPT ![k] = v]

\* "(2+3)*4"
ExprTwenty ==
    PyExpr(BinOp(BinOp(Constant(IntV(2)), "Add", Constant(IntV(3))),
                 "Mult", Constant(IntV(4))))

\* "(-8)**0.5"
ExprComplex ==
    PyExpr(BinOp(UnaryOp("USub", Constant(IntV(8))), "Pow", Constant(FloatV(1, 2))))

EntryCalc == Entry("abc", "calculate", ArgText(JsonObj(With("expression", ExprTwenty))))

EntryComplex == Entry("cx", "calculate", ArgText(JsonObj(With("expression", ExprComplex))))

EntryUnknown == Entry("u1", "get_weather", ArgText(JsonObj(NoKeys)))

EntryNoArgs == Entry("f1", "get_financial_info", ArgText(JsonObj(NoKeys)))

\* {"account_names": "...", "request_type": "..."}
EntryBalance ==
    Entry("g1", "get_financial_info",
          ArgText(JsonObj([With("account_names", PyStr("discover"))
                               EXCEPT !["request_type"] = PyStr("balance")])))

\* arguments that are no JSON text
EntryGarbage == Entry("b1", "calculate", ArgGarbage)

EntryGarbageGfi == Entry("b2", "get_financial_info", ArgGarbage)

\* an element of functions that is no object (a string, a number): it has
\* no get method
NotAnObject == [Entry("", "", ArgGarbage) EXCEPT !.object = FALSE]

Entries ==
    {EntryCalc, EntryComplex, EntryUnknown, EntryNoArgs, EntryBalance,
     EntryGarbage, EntryGarbageGfi, NotAnObject}

\* the requests of at most n entries: every entry is the plain calculate
\* entry, but for at most one, which is any entry of Entries
Requests(n) ==
    {[i \in 1..k |-> EntryCalc] : k \in 0..n}
        \cup {[i \in 1..k |-> IF i = j THEN e ELSE EntryCalc] :
                 k \in 1..n, j \in 1..n, e \in Entries}

(***************************************************************************)
(* main.py:67-93  what _handle_function_call_request does with one entry   *)
(* between two awaits.                                                     *)
(***************************************************************************)
\* main.py:70-73
parse_arguments(entry) ==
    IF entry.arguments.valid THEN entry.arguments.value ELSE JsonObj(NoKeys)

Returned(result) == [ok |-> TRUE, result |-> result, err |-> ""]

Raised(msg) == [ok |-> FALSE, result |-> ErrorOf(msg), err |-> msg]

\* the capability called with its parameters bound
call(func_name, kv, backend) ==
    IF func_name = "calculate" THEN calculate(kv["expression"])
    ELSE get_financial_info(kv, backend)

\* FUNCTION_MAP[func_name] without the test of line 75: KeyError
invoke_unguarded(func_name, arguments, backend) ==
    IF func_name \in FUNCTION_MAP
    THEN IF BindsKw(func_name, arguments)
         THEN Returned(call(func_name, arguments.kv, backend))
         ELSE IF arguments.t # "obj"
              THEN Raised("object has no attribute 'get'")
              ELSE IF BindsPos(func_name)
              THEN Returned(calculate(FallbackExpr(arguments.kv)))
              ELSE Raised("missing 1 required positional argument")
    ELSE Raised("KeyError")

\* main.py:75-83
invoke(func_name, arguments, backend) ==
    IF func_name \in FUNCTION_MAP
    THEN IF BindsKw(func_name, arguments)
         THEN Returned(call(func_name, arguments.kv, backend))
         ELSE \* except TypeError
              IF arguments.t # "obj"
              THEN Raised("object has no attribute 'get'")
              ELSE IF BindsPos(func_name)
              THEN Returned(calculate(FallbackExpr(arguments.kv)))
              ELSE Raised("missing 1 required positional argument")
    ELSE Returned(ToolResult("error", IntV(0), "Unknown function", func_name))

\* main.py:87-92  the reply of the except clause of the handler
error_reply(func_id, func_name) ==
    TextMsg(_create_function_call_response(func_id, func_name,
                                           ErrorOf("Function call failed")))

\* func_id and func_name before the first entry has assigned them
Unbound == [bound |-> FALSE, func_id |-> "", func_name |-> ""]

\* main.py:68-85 and 87-92: the entry up to the await that sends its reply,
\* locals being func_id and func_name as the entries before left them
handle_entry(entry, backend, l) ==
    IF ~entry.object
    THEN \* function_call.get raises AttributeError at line 68
         [pc |-> "send_err", locals |-> l,
          message |-> error_reply(IF l.bound THEN l.func_id ELSE "unknown",
                                  IF l.bound THEN l.func_name ELSE "unknown")]
    ELSE LET r == invoke(entry.name, parse_arguments(entry), backend)
             mine == [bound |-> TRUE, func_id |-> entry.id, func_name |-> entry.name]
         IN  IF r.ok /\ Serializable(r.result)
             THEN [pc |-> "send_reply", locals |-> mine,
                   message |-> TextMsg(_create_function_call_response(
                                           entry.id, entry.name, r.result))]
             ELSE [pc |-> "send_err", locals |-> mine,
                   message |-> error_reply(entry.id, entry.name)]

(***************************************************************************)
(* The state of one session.                                               *)
(***************************************************************************)
VARIABLES
    mpc,        \* where run_agent (and then main) is
    exc,        \* the exception run_agent is propagating, "none" when none
    in_stream,  \* the input device handle
    out_stream, \* the output device handle
    conn,       \* the connection ws
    spc,        \* where audio_sender is
    nread,      \* frames read from the input device
    data,       \* the frame audio_sender holds
    rpc,        \* where audio_receiver is
    decoded,    \* the functions of the request being handled
    idx,        \* the entry of decoded the handler is at
    locals,     \* func_id and func_name of the handler, once assigned
    pending,    \* the message the handler is sending
    wire,       \* the writes made to the connection, in order
    outbuf,     \* per task: the writes of its current send still to make
    played,     \* audio payloads written to the output device
    events,     \* frames read, messages received and entries received so far
    mark,       \* the length of wire when the request being handled arrived
    tool        \* a capability called on its own: its input and what it returned

vars == <<mpc, exc, in_stream, out_stream, conn, spc, nread, data, rpc, decoded,
          idx, locals, pending, wire, outbuf, played, events, mark, tool>>

session_vars == <<mpc, exc, in_stream, out_stream, conn, spc, nread, data, rpc,
                  decoded, idx, locals, pending, wire, outbuf, played, events, mark>>

main_vars == <<mpc, exc, in_stream, out_stream>>

sender_vars == <<spc, nread, data>>

receiver_vars == <<rpc, decoded, idx, locals, pending, played, events, mark>>

NoMsg == TextMsg([type |-> "none"])

Running == {"read", "send", "recv", "dispatch", "send_reply", "send_err"}

\* the event loop runs the tasks until run_agent is done (asyncio.run stops
\* the loop then, and cancels what is pending)
LoopRuns == mpc \notin {"returned", "exited"}

\* no capability is called outside a session
NoOut == ToolResult("none", IntV(0), "", "")

NoTool == [fn |-> "none", arg |-> PyNone, out |-> NoOut, nesting |-> 0, env |-> Healthy]

\* main.py:109-112  the session before run_agent has done anything, spent
\* of the budget of events taken as used
Start(spent) ==
    /\ mpc = "PyAudio"
    /\ exc = "none"
    /\ in_stream = "None"
    /\ out_stream = "None"
    /\ conn = "none"
    /\ spc = "idle"
    /\ nread = 0
    /\ data = 0
    /\ rpc = "idle"
    /\ decoded = <<>>
    /\ idx = 0
    /\ locals = Unbound
    /\ pending = NoMsg
    /\ wire = <<>>
    /\ outbuf = [t \in {"sender", "receiver"} |-> <<>>]
    /\ played = 0
    /\ events = spent
    /\ mark = 0

SessionInit == Start(0)

Init == SessionInit /\ tool = NoTool

(***************************************************************************)
(* run_agent, main.py:109-153.                                             *)
(***************************************************************************)
\* a try block that starts only after the devices are open
on_exception_late_try(stage) ==
    CASE stage \in {"PyAudio", "open_in", "open_out"} -> "returned"
      [] stage = "connect" -> "finally"
      [] OTHER -> "aexit"

\* main.py:110-140  where an exception raised at a stage of run_agent goes:
\* PyAudio() is outside the try, the async with block closes ws first
on_exception(stage) ==
    CASE stage = "PyAudio" -> "returned"
      [] stage \in {"open_in", "open_out", "connect"} -> "finally"
      [] OTHER -> "aexit"

\* main.py:110
PyAudio ==
    /\ mpc = "PyAudio"
    /\ \/ mpc' = "open_in" /\ exc' = exc
       \/ mpc' = on_exception("PyAudio") /\ exc' = "startup"
    /\ UNCHANGED <<in_stream, out_stream, conn, sender_vars, receiver_vars, wire, outbuf>>
    /\ UNCHANGED tool

\* main.py:115-121
OpenInput ==
    /\ mpc = "open_in"
    /\ \/ in_stream' = "open" /\ mpc' = "open_out" /\ exc' = exc
       \/ in_stream' = in_stream /\ mpc' = on_exception("open_in") /\ exc' = "startup"
    /\ UNCHANGED <<out_stream, conn, sender_vars, receiver_vars, wire, outbuf>>
    /\ UNCHANGED tool

\* main.py:122-128
OpenOutput ==
    /\ mpc = "open_out"
    /\ \/ out_stream' = "open" /\ mpc' = "connect" /\ exc' = exc
       \/ out_stream' = out_stream /\ mpc' = on_exception("open_out") /\ exc' = "startup"
    /\ UNCHANGED <<in_stream, conn, sender_vars, receiver_vars, wire, outbuf>>
    /\ UNCHANGED tool

\* main.py:14-21, 130  sts_connect() and entering the async with block
Connect ==
    /\ mpc = "connect"
    /\ \/ conn' = "open" /\ mpc' = "send_config" /\ exc' = exc
       \/ conn' = conn /\ mpc' = on_exception("connect") /\ exc' = "startup"
    /\ UNCHANGED <<in_stream, out_stream, sender_vars, receiver_vars, wire, outbuf>>
    /\ UNCHANGED tool

\* tasks created before the configuration is sent
after_config_tasks_first(sent) ==
    [mpc |-> IF sent THEN "gather" ELSE on_exception("send_config"),
     spc |-> "read", rpc |-> "recv"]

\* main.py:135-136  the tasks exist only once the send of line 132 returned
after_config(sent) ==
    IF sent THEN [mpc |-> "gather", spc |-> "read", rpc |-> "recv"]
    ELSE [mpc |-> on_exception("send_config"), spc |-> "idle", rpc |-> "idle"]

\* main.py:131-136  load_config(), the send of the configuration, the tasks
SendConfig ==
    /\ mpc = "send_config"
    /\ \E loaded \in BOOLEAN :
         LET sent == loaded /\ conn = "open"
             next == after_config(sent)
         IN  /\ wire' = IF sent THEN wire \o send_writes(TextMsg(config_message))
                        ELSE wire
             /\ mpc' = next.mpc
             /\ spc' = next.spc
             /\ rpc' = next.rpc
             /\ exc' = IF sent THEN exc ELSE "startup"
    /\ UNCHANGED <<in_stream, out_stream, conn, nread, data, decoded, idx, locals,
                   pending, outbuf, played, events, mark>>
    /\ UNCHANGED tool

\* a wait that ends as soon as one of the tasks is done
gather_first_completed(s, r) == s \in {"done", "failed"} \/ r \in {"done", "failed"}

\* main.py:138  gather goes on in run_agent only when a task has raised: a
\* task that returned leaves it waiting for the other
gather_raises(s, r) == s = "failed" \/ r = "failed"

\* main.py:138  gather without return_exceptions: the first exception of a
\* task is raised in run_agent, and the other task is left as it is
Gather ==
    /\ mpc = "gather"
    /\ gather_raises(spc, rpc)
    /\ mpc' = on_exception("gather")
    /\ exc' = "relay"
    /\ UNCHANGED <<in_stream, out_stream, conn, sender_vars, receiver_vars, wire, outbuf>>
    /\ UNCHANGED tool

Cancel(pc) == IF pc \in Running THEN "cancelled" ELSE pc

\* main.py:156-160  Ctrl+C: asyncio.run cancels run_agent at its await; a
\* cancelled gather cancels both tasks
ExternalCancel ==
    /\ mpc \in {"connect", "send_config", "gather"}
    /\ mpc' = on_exception(mpc)
    /\ exc' = "cancelled"
    /\ spc' = Cancel(spc)
    /\ rpc' = Cancel(rpc)
    /\ outbuf' = [t \in {"sender", "receiver"} |-> <<>>]
    /\ UNCHANGED <<in_stream, out_stream, conn, nread, data, decoded, idx, locals,
                   pending, wire, played, events, mark>>
    /\ UNCHANGED tool

\* main.py:130  leaving the async with block closes the connection
AExit ==
    /\ mpc = "aexit"
    /\ conn' = IF conn = "open" THEN "closed_ok" ELSE conn
    /\ mpc' = "finally"
    /\ UNCHANGED <<exc, in_stream, out_stream, sender_vars, receiver_vars, wire, outbuf>>
    /\ UNCHANGED tool

ReleaseOutcomes == {"released", "stop_failed", "close_failed"}

\* main.py:141-146 and 147-152  one try block: stop_stream(), close(), and
\* except Exception: pass
release(stream, outcome) ==
    [stream |-> IF stream = "open" THEN outcome ELSE stream, escaped |-> FALSE]

\* both releases in one try block, with no except clause
finally_block_one_try(ins, outs, r1, r2) ==
    LET a == release(ins, r1)
        failed == a.stream \in {"stop_failed", "close_failed"}
        b == IF failed THEN [stream |-> outs, escaped |-> TRUE] ELSE release(outs, r2)
    IN  [in_stream |-> a.stream, out_stream |-> b.stream,
         escaped |-> b.escaped \/ b.stream \in {"stop_failed", "close_failed"}]

\* main.py:140-153
finally_block(ins, outs, r1, r2) ==
    LET a == release(ins, r1)
        b == release(outs, r2)
    IN  [in_stream |-> a.stream, out_stream |-> b.stream,
         escaped |-> a.escaped \/ b.escaped]

Finally ==
    /\ mpc = "finally"
    /\ \E r1, r2 \in ReleaseOutcomes :
         LET f == finally_block(in_stream, out_stream, r1, r2)
         IN  /\ in_stream' = f.in_stream
             /\ out_stream' = f.out_stream
             /\ exc' = IF f.escaped THEN "release" ELSE exc
    /\ mpc' = "returned"
    /\ UNCHANGED <<conn, sender_vars, receiver_vars, wire, outbuf>>
    /\ UNCHANGED tool

\* main.py:156-160  asyncio.run cancels the tasks still pending and returns
AsyncioRun ==
    /\ mpc = "returned"
    /\ mpc' = "exited"
    /\ spc' = Cancel(spc)
    /\ rpc' = Cancel(rpc)
    /\ outbuf' = [t \in {"sender", "receiver"} |-> <<>>]
    /\ UNCHANGED <<exc, in_stream, out_stream, conn, nread, data, decoded, idx,
                   locals, pending, wire, played, events, mark>>
    /\ UNCHANGED tool

\* the remote agent, or the network, closes the connection
RemoteClose ==
    /\ conn = "open"
    /\ conn' \in {"closed_ok", "closed_err"}
    /\ UNCHANGED <<main_vars, sender_vars, receiver_vars, wire, outbuf>>
    /\ UNCHANGED tool

(***************************************************************************)
(* A task's await ws.send(message): the writes of send_writes go to the    *)
(* wire one step each; Sent says that this step makes the last of them.    *)
(***************************************************************************)
Writes(task, message) ==
    IF outbuf[task] = <<>> THEN send_writes(message) ELSE outbuf[task]

Write(task, message) ==
    /\ wire' = Append(wire, Head(Writes(task, message)))
    /\ outbuf' = [outbuf EXCEPT ![task] = Tail(Writes(task, message))]

Sent(task, message) == Len(Writes(task, message)) = 1

(***************************************************************************)
(* audio_sender, main.py:49-53.                                            *)
(***************************************************************************)
\* main.py:52  in_stream.read returns the next frame of the device
SenderRead ==
    /\ LoopRuns
    /\ spc = "read"
    /\ events < MaxEvents
    /\ events' = events + 1
    /\ nread' = nread + 1
    /\ data' = nread + 1
    /\ spc' = "send"
    /\ UNCHANGED <<main_vars, conn, rpc, decoded, idx, locals, pending, played,
                   mark, wire, outbuf>>
    /\ UNCHANGED tool

\* main.py:52  in_stream.read raises
SenderReadFails ==
    /\ LoopRuns
    /\ spc = "read"
    /\ spc' = "failed"
    /\ UNCHANGED <<main_vars, conn, nread, data, receiver_vars, wire, outbuf>>
    /\ UNCHANGED tool

\* a loop that sends the frame it holds again instead of reading the next
sender_loop_resend(sent) == "send"

\* main.py:51-53  while True: after the send, the next read
sender_loop(sent) == IF sent THEN "read" ELSE "send"

\* main.py:53
SenderSend ==
    /\ LoopRuns
    /\ spc = "send"
    /\ IF conn = "open"
       THEN /\ Write("sender", BinaryMsg(data))
            /\ spc' = sender_loop(Sent("sender", BinaryMsg(data)))
       ELSE /\ spc' = "failed"
            /\ wire' = wire
            /\ outbuf' = [outbuf EXCEPT !["sender"] = <<>>]
    /\ UNCHANGED <<main_vars, conn, nread, data, receiver_vars>>
    /\ UNCHANGED tool

(***************************************************************************)
(* audio_receiver, main.py:96-106, and _handle_function_call_request,      *)
(* main.py:65-93.                                                          *)
(***************************************************************************)
\* the handler run as a task of its own: the loop goes on receiving
receives_spawned(pc) == pc \in {"recv", "dispatch", "send_reply", "send_err"}

\* main.py:97, 104  the loop asks for the next message at line 97 only; the
\* handler is awaited, so the loop is not at line 97 while it runs
receives(pc) == pc = "recv"

\* main.py:97  the iteration over ws ends when the connection was closed
\* normally and raises ConnectionClosedError otherwise
RecvClosed ==
    /\ LoopRuns
    /\ receives(rpc)
    /\ conn \in {"closed_ok", "closed_err"}
    /\ rpc' = IF conn = "closed_ok" THEN "done" ELSE "failed"
    /\ UNCHANGED <<main_vars, conn, sender_vars, decoded, idx, locals, pending,
                   played, events, mark, wire, outbuf>>
    /\ UNCHANGED tool

\* main.py:98-99  a binary message: out_stream.write, which may raise
RecvBinary ==
    /\ LoopRuns
    /\ receives(rpc)
    /\ conn = "open"
    /\ events < MaxEvents
    /\ events' = events + 1
    /\ \/ out_stream = "open" /\ played' = played + 1 /\ rpc' = rpc
       \/ played' = played /\ rpc' = "failed"
    /\ UNCHANGED <<main_vars, conn, sender_vars, decoded, idx, locals, pending,
                   mark, wire, outbuf>>
    /\ UNCHANGED tool

\* texts audio_receiver drops: not JSON, JSON that is no object (decoded.get
\* raises, main.py:105 swallows), an object of another type
IgnoredTexts == {"not json", "json list", "other type"}

\* the body of the loop without its try statement: json.loads and
\* decoded.get raise into the loop
receive_text_no_try(text) ==
    [pc |-> IF text \in {"not json", "json list"} THEN "failed"
            ELSE IF text = "request" THEN "dispatch" ELSE "recv",
     sends |-> <<>>, plays |-> 0]

\* main.py:100-106  what a text makes of the loop before any await: where
\* it goes on, what it sends, how often it writes to out_stream.  The
\* exceptions of json.loads ("not json") and of decoded.get ("json list")
\* are passed over at line 105; only a request enters the handler.
receive_text(text) ==
    [pc |-> IF text \in {"not json", "json list"} THEN "recv"
            ELSE IF text = "request" THEN "dispatch" ELSE "recv",
     sends |-> <<>>, plays |-> 0]

\* main.py:101-106
RecvIgnored ==
    /\ LoopRuns
    /\ receives(rpc)
    /\ conn = "open"
    /\ events < MaxEvents
    /\ \E text \in IgnoredTexts :
         /\ events' = events + 1
         /\ rpc' = receive_text(text).pc
         /\ wire' = wire \o receive_text(text).sends
         /\ played' = played + receive_text(text).plays
    /\ UNCHANGED <<main_vars, conn, sender_vars, decoded, idx, locals, pending,
                   mark, outbuf>>
    /\ UNCHANGED tool

\* main.py:102-104, 66-67  a FunctionCallRequest: the handler starts
RecvRequest ==
    /\ LoopRuns
    /\ receives(rpc)
    /\ conn = "open"
    /\ events < MaxEvents
    /\ \/ \E functions \in Requests(MaxEvents - events - 1) :
            /\ decoded' = functions
            /\ events' = events + 1 + Len(functions)
            /\ idx' = 1
            /\ rpc' = receive_text("request").pc
            /\ pending' = pending
       \/ \* functions is no sequence (a number, null): the for statement of
          \* line 67 raises TypeError, no entry was looked at
          /\ decoded' = <<>>
          /\ events' = events + 1
          /\ idx' = 0
          /\ rpc' = "send_err"
          /\ pending' = error_reply("unknown", "unknown")
    /\ locals' = Unbound
    /\ mark' = Len(wire)
    /\ UNCHANGED <<main_vars, conn, sender_vars, played, wire, outbuf>>
    /\ UNCHANGED tool

\* the call handed to another thread and awaited: the event loop runs
\* audio_sender meanwhile, which sends the frame it holds
call_in_executor(w, s, frame) ==
    IF s = "send" THEN w \o send_writes(BinaryMsg(frame)) ELSE w

\* main.py:78, 81  the capability is called, not awaited: the event loop
\* runs nothing else until it returns, and the wire is after the call what
\* it was before, whatever audio_sender holds
call_blocks(w, s, frame) == w

\* main.py:67-85, 87-92  the next entry up to its send, or the end of the loop
Dispatch ==
    /\ LoopRuns
    /\ rpc = "dispatch"
    /\ IF idx > Len(decoded)
       THEN /\ rpc' = "recv"
            /\ decoded' = <<>>
            /\ idx' = 0
            /\ locals' = Unbound
            /\ pending' = NoMsg
            /\ mark' = 0
       ELSE \E backend \in GfiOutcomes :
              LET h == handle_entry(decoded[idx], backend, locals)
              IN  /\ locals' = h.locals
                  /\ pending' = h.message
                  /\ rpc' = h.pc
                  /\ UNCHANGED <<decoded, idx, mark>>
    /\ wire' = call_blocks(wire, spc, data)
    /\ UNCHANGED <<main_vars, conn, sender_vars, played, events, outbuf>>
    /\ UNCHANGED tool

\* main.py:86  the reply of the entry; a send that raises enters the except
\* clause of line 87
SendReply ==
    /\ LoopRuns
    /\ rpc = "send_reply"
    /\ IF conn = "open"
       THEN /\ Write("receiver", pending)
            /\ IF Sent("receiver", pending)
               THEN rpc' = "dispatch" /\ idx' = idx + 1
               ELSE UNCHANGED <<rpc, idx>>
            /\ pending' = pending
       ELSE /\ pending' = error_reply(locals.func_id, locals.func_name)
            /\ rpc' = "send_err"
            /\ idx' = idx
            /\ wire' = wire
            /\ outbuf' = [outbuf EXCEPT !["receiver"] = <<>>]
    /\ UNCHANGED <<main_vars, conn, sender_vars, decoded, locals, played, events, mark>>
    /\ UNCHANGED tool

\* main.py:93  the reply of the except clause; the handler then returns, and
\* an exception of this send is swallowed by main.py:105
SendErr ==
    /\ LoopRuns
    /\ rpc = "send_err"
    /\ IF conn = "open"
       THEN /\ Write("receiver", pending)
            /\ rpc' = IF Sent("receiver", pending) THEN "recv" ELSE rpc
       ELSE /\ rpc' = "recv"
            /\ wire' = wire
            /\ outbuf' = [outbuf EXCEPT !["receiver"] = <<>>]
    /\ IF rpc' = "recv"
       THEN /\ decoded' = <<>>
            /\ idx' = 0
            /\ locals' = Unbound
            /\ pending' = NoMsg
            /\ mark' = 0
       ELSE UNCHANGED <<decoded, idx, locals, pending, mark>>
    /\ UNCHANGED <<main_vars, conn, sender_vars, played, events>>
    /\ UNCHANGED tool

Next ==
    \/ PyAudio
    \/ OpenInput
    \/ OpenOutput
    \/ Connect
    \/ SendConfig
    \/ Gather
    \/ ExternalCancel
    \/ AExit
    \/ Finally
    \/ AsyncioRun
    \/ RemoteClose
    \/ SenderRead
    \/ SenderReadFails
    \/ SenderSend
    \/ RecvClosed
    \/ RecvBinary
    \/ RecvIgnored
    \/ RecvRequest
    \/ Dispatch
    \/ SendReply
    \/ SendErr

Spec == Init /\ [][Next]_vars

\* The blocking in_stream.read returns, and the event loop runs a task or
\* a coroutine that can go on: audio_sender's send, the gather of
\* run_agent, the exit of the async with block, the finally block.  The
\* sessions are those of Spec with one event less.
LiveInit == Start(1) /\ tool = NoTool

LiveSpec ==
    /\ LiveInit
    /\ [][Next]_vars
    /\ WF_vars(SenderRead)
    /\ WF_vars(SenderSend)
    /\ WF_vars(Gather)
    /\ WF_vars(AExit)
    /\ WF_vars(Finally)

(***************************************************************************)
(* The capabilities called on their own, outside a session: the inputs are *)
(* drawn in the initial state, one step applies the capability.            *)
(***************************************************************************)
\* the literals, and the identifier, an expression is made of
Leaves ==
    {Constant(IntV(2)), Constant(IntV(13)), Constant(IntV(1000000)),
     Constant(FloatV(1, 2)), Constant(BoolV(TRUE)), Constant(StrV),
     Constant(NoneV), Name}

\* the numbers an operator combines an expression with
Operands == {Constant(IntV(2)), Constant(IntV(13))}

\* what an expression is nested in: a sign, a call, an attribute access, or
\* an operator with a number on its left or on its right
Wrappers ==
    {<<"USub">>, <<"Call">>, <<"Attribute">>}
        \cup {<<"Left", o, y>> : o \in BinOps \cup {"Caret"}, y \in Operands}
        \cup {<<"Right", o, y>> : o \in BinOps \cup {"Caret"}, y \in Operands}

Wrap(x, w) ==
    CASE w[1] = "USub" -> UnaryOp("USub", x)
      [] w[1] = "Call" -> Call(x)
      [] w[1] = "Attribute" -> Attribute(x)
      [] w[1] = "Left" -> BinOp(x, w[2], w[3])
      [] w[1] = "Right" -> BinOp(w[3], w[2], x)

CalcInputs ==
    {PyNone, PyBlank, PySyntaxError, PyOther} \cup {PyExpr(t) : t \in Leaves}

\* the arguments get_financial_info is called with
GfiInputs ==
    {[k \in Keys |->
        CASE k = "account_names" -> a
          [] k = "request_type" -> r
          [] k = "start_date" -> d1
          [] k = "end_date" -> d2
          [] OTHER -> Absent] :
       a \in {PyStr("all"), PyStr("discover"), PyStr("savings"), PyNone},
       r \in {PyStr("balance"), PyStr("transactions"), PyStr("history"), PyNone},
       d1 \in {Absent, PyStr("tomorrow")} \cup {PyDate(d) : d \in Dates},
       d2 \in {Absent, PyStr("tomorrow")} \cup {PyDate(d) : d \in Dates}}

\* the parsed arguments calculate is invoked with: each of the keys of the
\* fallback absent, an empty string, or an expression of its own
InvokeInputs ==
    {[k \in Keys |->
        CASE k = "expression" -> e
          [] k = "query" -> q
          [] k = "input" -> i
          [] OTHER -> Absent] :
       e \in {Absent, PyBlank, PyExpr(Constant(IntV(2)))},
       q \in {Absent, PyBlank, PyExpr(Constant(IntV(13)))},
       i \in {Absent, PyBlank, PyExpr(Constant(FloatV(1, 2)))}}

ToolInputs ==
    {[fn |-> "calculate", arg |-> e, out |-> NoOut, nesting |-> 0, env |-> Healthy] :
        e \in CalcInputs}
      \cup {[fn |-> "get_financial_info", arg |-> kv, out |-> NoOut, nesting |-> 0,
              env |-> backend] : kv \in GfiInputs, backend \in Backends}
      \cup {[fn |-> "invoke", arg |-> kv, out |-> NoOut, nesting |-> 0, env |-> Healthy] :
              kv \in InvokeInputs}
      \cup {[fn |-> "receive_text", arg |-> text, out |-> NoOut, nesting |-> 0,
              env |-> Healthy] : text \in IgnoredTexts \cup {"request"}}
      \cup {[fn |-> "_fetch_transactions",
              arg |-> [offset |-> 0, collected |-> 0, total |-> 0, requests |-> 0],
              out |-> NoOut, nesting |-> 0, env |-> Healthy]}

ToolInit == SessionInit /\ tool \in ToolInputs

\* the expression calculate is called with is nested once more
Nest ==
    /\ tool.fn = "calculate"
    /\ tool.out = NoOut
    /\ tool.arg.text = "expr"
    /\ tool.nesting < MaxNesting
    /\ \E w \in Wrappers :
         tool' = [tool EXCEPT !.arg = PyExpr(Wrap(tool.arg.tree, w)),
                              !.nesting = @ + 1]
    /\ UNCHANGED session_vars

\* calculator.py:48  calculate(expression)
Calculate ==
    /\ tool.fn = "calculate"
    /\ tool.out = NoOut
    /\ tool' = [tool EXCEPT !.out = calculate(tool.arg)]
    /\ UNCHANGED session_vars

\* plaid_tool.py:267  get_financial_info(**arguments)
GetFinancialInfo ==
    /\ tool.fn = "get_financial_info"
    /\ tool.out = NoOut
    /\ tool' = [tool EXCEPT !.out = get_financial_info(tool.arg, tool.env)]
    /\ UNCHANGED session_vars

\* main.py:75-83  calculate looked up and invoked with the parsed arguments
Invoke ==
    /\ tool.fn = "invoke"
    /\ tool.out = NoOut
    /\ tool' = [tool EXCEPT !.out = invoke("calculate", JsonObj(tool.arg), tool.env).result]
    /\ UNCHANGED session_vars

\* main.py:100-106  audio_receiver takes a text
ReceiveText ==
    /\ tool.fn = "receive_text"
    /\ tool.out = NoOut
    /\ tool' = [tool EXCEPT !.out = receive_text(tool.arg)]
    /\ UNCHANGED session_vars

\* plaid_tool.py:196-213  one round of the while loop of
\* _fetch_transactions: the request with the offset, and a response of n
\* transactions that reports a total (or lacks the key), or an
\* exception of transactions_get.  collected is len(all_transactions);
\* requests is the parity of the number of requests made.
FetchPage ==
    /\ tool.fn = "_fetch_transactions"
    /\ tool.out = NoOut
    /\ \/ \E n \in 0..(MaxCollected - tool.arg.collected),
              reported \in 0..(MaxCollected + 1), missing \in BOOLEAN :
            LET all == tool.arg.collected + n
                total == IF missing THEN all ELSE reported
            IN  tool' = [tool EXCEPT
                           !.arg = [offset |-> IF all >= total THEN @.offset ELSE all,
                                    collected |-> all,
                                    total |-> total,
                                    requests |-> (@.requests + 1) % 2],
                           !.out = IF all >= total
                                   THEN ToolResult("transactions", IntV(all), "", "")
                                   ELSE NoOut]
       \/ tool' = [tool EXCEPT !.arg.requests = (@ + 1) % 2,
                               !.out = ErrorOf("transactions_get raised")]
    /\ UNCHANGED session_vars

ToolNext ==
    \/ Nest
    \/ Calculate
    \/ GetFinancialInfo
    \/ Invoke
    \/ ReceiveText
    \/ FetchPage

ToolSpec == ToolInit /\ [][ToolNext]_vars

\* the backend answers every request of _fetch_transactions, and the loop
\* goes on with what it got
FetchSpec == ToolSpec /\ WF_vars(FetchPage)

(***************************************************************************)
(* What the claims speak of.                                               *)
(***************************************************************************)
Terminated == {"done", "failed", "cancelled"}

Closed == {"closed_ok", "closed_err"}

IsAudio(w) == w.msg.kind = "binary"

IsReply(w) == w.msg.kind = "text" /\ json_loads(w.msg.body).type = "FunctionCallResponse"

IsConfig(w) == w.msg = TextMsg(config_message)

\* the frames on the wire, in order
AudioOn(w) == [i \in 1..Len(SelectSeq(w, IsAudio)) |-> SelectSeq(w, IsAudio)[i].msg.frame]

\* the replies written to w after its first k writes, as decoded objects
RepliesAfter(w, k) ==
    LET r == SelectSeq(SubSeq(w, k + 1, Len(w)), IsReply)
    IN  [i \in 1..Len(r) |-> json_loads(r[i].msg.body)]

\* the handler returns to the loop of audio_receiver in this step
HandlerReturns == rpc \in {"dispatch", "send_reply", "send_err"} /\ rpc' = "recv"

InvocationRaises(entry) ==
    \A backend \in GfiOutcomes : ~invoke(entry.name, parse_arguments(entry), backend).ok

\* C1: if audio_sender raises while audio_receiver is blocked receiving,
\* then when run_agent returns audio_receiver is no longer running, both
\* device handles have had their release call and the connection is closed.
C1_SenderFailureStopsReceiver ==
    (mpc = "returned" /\ exc = "relay" /\ spc = "failed")
        => /\ rpc \in Terminated
           /\ in_stream \in ReleaseOutcomes
           /\ out_stream \in ReleaseOutcomes
           /\ conn \in Closed

\* audio_sender failed while audio_receiver was receiving, run_agent has
\* returned with everything released and closed, and audio_receiver is
\* still a pending task
C1_Witness ==
    /\ mpc = "returned" /\ exc = "relay" /\ spc = "failed" /\ rpc = "recv"
    /\ in_stream = "released" /\ out_stream = "released" /\ conn \in Closed

\* C2: the session leaves STREAMING as soon as either relay has terminated,
\* normally or by failure, and the orchestrator has then cancelled the
\* other relay: once a relay has terminated the orchestrator can leave
\* STREAMING, and no relay runs once STREAMING was left on a relay's end.
C2_RelayEndCancelsOther ==
    /\ (mpc = "gather" /\ (spc \in Terminated \/ rpc \in Terminated))
          => ENABLED Gather
    /\ (mpc \in {"aexit", "finally", "returned"} /\ exc = "relay")
          => (spc \in Terminated /\ rpc \in Terminated)

\* audio_receiver ended normally and run_agent still waits in gather, with
\* audio_sender running
C2_Witness ==
    mpc = "gather" /\ rpc = "done" /\ spc \in {"read", "send"}

\* C3: when the invocation of an entry raises (the fallback retry
\* included), the handler answers that entry with an error reply and goes
\* on: it never returns, the connection open, with later entries of the
\* request not yet reached.
C3_FailureKeepsDispatching ==
    [][(HandlerReturns /\ conn = "open" /\ idx \in 1..Len(decoded)
        /\ InvocationRaises(decoded[idx]))
          => idx = Len(decoded)]_vars

\* the fallback retry of the first of two entries raised: the handler is
\* about to send its error reply, the second entry not reached
C3_Witness ==
    /\ rpc = "send_err" /\ conn = "open" /\ idx = 1
    /\ decoded = <<EntryNoArgs, EntryCalc>>
    /\ pending = error_reply("f1", "get_financial_info")

\* C5: for a request whose functions is a sequence (idx >= 1) of n
\* well-formed entries whose invocations do not raise, the handler has written exactly n replies when it returns (the
\* connection open), the i-th a FunctionCallResponse with the id and name
\* of the i-th entry and the JSON encoding of its Tool Result as content.
C5_OneReplyPerEntry ==
    [][(HandlerReturns /\ conn = "open" /\ idx >= 1
        /\ \A i \in 1..Len(decoded) :
              decoded[i].object /\ ~InvocationRaises(decoded[i]))
          => LET got == RepliesAfter(wire', mark)
             IN  /\ Len(got) = Len(decoded)
                 /\ \A i \in 1..Len(decoded) : \E backend \in GfiOutcomes :
                      got[i] = _create_function_call_response(
                                   decoded[i].id, decoded[i].name,
                                   invoke(decoded[i].name, parse_arguments(decoded[i]),
                                          backend).result)]_vars

\* calculate returned a Tool Result that json.dumps rejects: the handler is
\* about to answer the entry with the reply of its except clause
C5_Witness ==
    /\ rpc = "send_err" /\ conn = "open" /\ idx = 1
    /\ decoded = <<EntryComplex>>
    /\ calculate(ExprComplex) = ResultOf(ComplexV)
    /\ pending = error_reply("cx", "calculate")

\* the nodes of a tree, the tree itself included
RECURSIVE Nodes(_)
Nodes(node) == {node} \cup UNION {Nodes(node.args[i]) : i \in DOMAIN node.args}

\* an identifier, a call, an attribute access or a literal that is no number
NonNumeric(node) ==
    \/ node.node \in {"Name", "Call", "Attribute"}
    \/ node.node = "Constant" /\ node.value.t \in {"str", "bool", "None"}

Called(fn) == tool.fn = fn /\ tool.out # NoOut

\* C11: calculate returns an error result for every expression that holds
\* an identifier, a call, an attribute access or a non-numeric literal
\* (string, boolean, None).
C11_NonNumericRejected ==
    (Called("calculate") /\ tool.arg.text = "expr"
        /\ \E node \in Nodes(tool.arg.tree) : NonNumeric(node))
      => tool.out.key = "error"

\* calculate("True") returned {"result": True}
C11_Witness ==
    /\ Called("calculate")
    /\ tool.arg = PyExpr(Constant(BoolV(TRUE)))
    /\ tool.out = ResultOf(BoolV(TRUE))

\* the magnitude of the number v is above the integer bound
Exceeds(v, bound) ==
    \/ v.t = "big"
    \/ /\ Exact(v)
       /\ \/ Abs(v.n) \div v.d > bound
          \/ Abs(v.n) \div v.d = bound /\ Abs(v.n) % v.d > 0

\* the power sub-expressions of the text of an expression (** or ^)
Powers(tree) == {node \in Nodes(replace_caret(tree)) : node.node = "BinOp" /\ node.op = "Pow"}

\* C12: when a power sub-expression has an evaluated base of magnitude
\* above 1e6 or an evaluated exponent of magnitude above 12, calculate
\* returns an error result.
C12_ExponentGuard ==
    (Called("calculate") /\ tool.arg.text = "expr")
      => \A p \in Powers(tool.arg.tree) :
           LET base == _safe_eval_node(p.args[1], 0)
               exponent == _safe_eval_node(p.args[2], 0)
           IN  (base.ok /\ exponent.ok
                  /\ (Exceeds(base.v, 1000000) \/ Exceeds(exponent.v, 12)))
                 => tool.out.key = "error"

\* "2^-13" is refused for its exponent
C12_Witness ==
    /\ Called("calculate")
    /\ tool.arg = PyExpr(BinOp(Constant(IntV(2)), "Caret",
                               UnaryOp("USub", Constant(IntV(13)))))
    /\ tool.out = ErrorOf("Exponent too large")

\* the accounts the call selects, none when the resolution fails
SelectedBy(kv, backend) ==
    _resolve_selected_accounts(Param(kv, "account_names"), backend.tokens).selected

Wants(kv, what) == Param(kv, "request_type") = PyStr(what)

ResolutionFails(kv, backend) == SelectedBy(kv, backend) = {}

DateFails(kv) ==
    /\ Wants(kv, "transactions")
    /\ \/ ~_parse_date(Param(kv, "start_date")).ok
       \/ ~_parse_date(Param(kv, "end_date")).ok
       \/ /\ Param(kv, "start_date") = PyDate("2024-02-01")
          /\ Param(kv, "end_date") = PyDate("2024-01-01")

\* a fetch the call makes fails
FetchFails(kv, backend) ==
    /\ backend.client
    /\ Wants(kv, "balance") \/ (Wants(kv, "transactions") /\ ~DateFails(kv))
    /\ SelectedBy(kv, backend) \cap backend.down # {}

\* C13: get_financial_info returns {error: message} whenever the account
\* resolution, the validation of the dates (transactions only) or the fetch
\* for a selected account fails, and a summary or a transactions file only
\* when none of them failed.
C13_FailureIsError ==
    Called("get_financial_info")
      => LET failure == \/ ResolutionFails(tool.arg, tool.env)
                        \/ DateFails(tool.arg)
                        \/ FetchFails(tool.arg, tool.env)
         IN  /\ failure => tool.out.key = "error"
             /\ tool.out.key \in {"text", "transactions_file"} => ~failure

\* the balance of an account whose fetch failed: a summary is returned
C13_Witness ==
    /\ Called("get_financial_info")
    /\ Wants(tool.arg, "balance")
    /\ SelectedBy(tool.arg, tool.env) = {"discover"}
    /\ "discover" \in tool.env.down
    /\ tool.out = ToolResult("text", StrV, "error fetching balances", "")

\* C14: when the handling fails before the id and the name of the failing
\* entry were extracted (functions is no sequence, or the entry no object),
\* the error reply carries the id "unknown" and the name "unknown".
C14_PlaceholderIds ==
    [][(/\ rpc' = "send_err"
        /\ \/ rpc = "recv"
           \/ rpc = "dispatch" /\ idx \in 1..Len(decoded) /\ ~decoded[idx].object)
          => pending' = error_reply("unknown", "unknown")]_vars

\* the second element of functions is no object, and the error reply about
\* to be sent carries the id and the name of the first entry
C14_Witness ==
    /\ rpc = "send_err" /\ conn = "open" /\ idx = 2
    /\ decoded = <<EntryCalc, NotAnObject>>
    /\ pending = error_reply("abc", "calculate")

\* C15: when the call with named parameters fails to bind, the capability is
\* called once more with one positional argument, the value of the first of
\* the keys expression, query, input that the arguments have, an empty
\* string included.
C15_FallbackFirstPresent ==
    (/\ tool.fn = "invoke" /\ tool.out # NoOut
     /\ ~BindsKw("calculate", JsonObj(tool.arg))
     /\ KeysOf(tool.arg) # {})
        => LET first == IF tool.arg["expression"] # Absent THEN "expression"
                        ELSE IF tool.arg["query"] # Absent THEN "query"
                        ELSE "input"
           IN  tool.out = calculate(tool.arg[first])

\* the arguments {"expression": "", "query": "13"}: calculate was called with
\* the value of query
C15_Witness ==
    /\ tool.fn = "invoke"
    /\ tool.arg["expression"] = PyBlank
    /\ tool.arg["query"] = PyExpr(Constant(IntV(13)))
    /\ tool.out = ResultOf(IntV(13))

\* C16: a failed send of a Function Call Reply is fatal to audio_receiver:
\* when the receiver leaves the handler after a send on the closed
\* connection (and not by being cancelled), it has terminated with that
\* failure; it does not go back to receiving.
C16_ReplySendFailureFatal ==
    [][(/\ rpc \in {"send_reply", "send_err"} /\ conn \in Closed
        /\ rpc' \notin {"send_reply", "send_err", "cancelled"})
          => rpc' = "failed"]_vars

\* the invocation of the only entry returned, the send of its reply raised
\* on the closed connection, and the handler is in its except clause
C16_Witness ==
    /\ rpc = "send_err" /\ conn \in Closed /\ idx = 1
    /\ decoded = <<EntryCalc>>
    /\ pending = error_reply("abc", "calculate")

\* C17: while the handler of a request runs, audio_receiver takes no other
\* inbound message: nothing is played and the request in hand stays the
\* same until the handler returns; and a reply is written only by the
\* handler, for the request in hand, after the writes that preceded it.
C17_OneDispatchAtATime ==
    [][/\ rpc \in {"dispatch", "send_reply", "send_err"}
          => /\ played' = played
             /\ \/ decoded' = decoded /\ mark' = mark
                \/ rpc' = "recv" /\ decoded' = <<>>
       /\ (Len(wire') > Len(wire) /\ IsReply(wire'[Len(wire')]))
          => /\ rpc \in {"send_reply", "send_err"}
             /\ wire'[Len(wire')].msg = pending
             /\ Len(wire') > mark]_vars

\* the first of two replies is on the wire, the second about to be sent,
\* and the remote side may send more
C17_Witness ==
    /\ rpc = "send_reply" /\ conn = "open" /\ idx = 2 /\ Len(decoded) = 2
    /\ Len(RepliesAfter(wire, mark)) = 1
    /\ events < MaxEvents

\* C18: an entry whose arguments are no valid JSON is never aborted: the
\* reply the handler prepares for it carries its id and name, and the
\* handler does not return at that entry (the connection open) while later
\* entries of the request are not yet reached.
C18_InvalidArgumentsGoOn ==
    [][(/\ conn = "open" /\ idx \in 1..Len(decoded)
        /\ decoded[idx].object /\ ~decoded[idx].arguments.valid)
          => /\ (rpc = "dispatch" /\ rpc' \in {"send_reply", "send_err"})
                  => /\ json_loads(pending'.body).id = decoded[idx].id
                     /\ json_loads(pending'.body).name = decoded[idx].name
             /\ HandlerReturns => idx = Len(decoded)]_vars

\* get_financial_info got arguments that are no JSON: the call with no
\* arguments and the retry both raised, the handler is about to send the
\* error reply and return, the second entry not reached
C18_Witness ==
    /\ rpc = "send_err" /\ conn = "open" /\ idx = 1
    /\ decoded = <<EntryGarbageGfi, EntryCalc>>
    /\ pending = error_reply("b2", "get_financial_info")

\* C19: a text that is no JSON, or JSON that is no object of type
\* FunctionCallRequest, makes audio_receiver send nothing and write nothing
\* to the output device, and the loop goes on to the next message.
C19_IgnoredTexts ==
    (tool.fn = "receive_text" /\ tool.out # NoOut /\ tool.arg \in IgnoredTexts)
        => /\ tool.out.sends = <<>>
           /\ tool.out.plays = 0
           /\ receives(tool.out.pc)

\* audio_receiver has taken a text that json.loads rejects
C19_Witness ==
    /\ tool.fn = "receive_text" /\ tool.arg = "not json"
    /\ tool.out = receive_text("not json")

\* C20: once the connection is closed while run_agent waits in gather, and
\* the read audio_sender may be blocked in can return (in the model: the
\* budget of events allows it), the session eventually reaches the end of
\* run_agent with both device handles released.  On the way audio_receiver's normal end leaves audio_sender as
\* it is, run_agent leaves gather only with a relay's exception or a
\* cancellation, and when it leaves with a relay's exception after
\* audio_receiver ended normally, audio_sender is the relay that failed.
C20_CloseEndsSession ==
    /\ (conn \in Closed /\ mpc = "gather" /\ (spc = "read" => events < MaxEvents))
          ~> (/\ mpc \in {"returned", "exited"}
              /\ in_stream \in ReleaseOutcomes
              /\ out_stream \in ReleaseOutcomes)
    /\ [][/\ (rpc' = "done" /\ rpc # "done") => spc' = spc
          /\ (mpc = "gather" /\ mpc' # "gather")
                => /\ exc' \in {"relay", "cancelled"}
                   /\ (exc' = "relay" /\ rpc = "done") => spc = "failed"]_vars

\* the remote side closed the connection, audio_receiver ended normally,
\* audio_sender's send on the closed connection failed, and run_agent has
\* finished with both device handles released
C20_Witness ==
    /\ mpc = "returned" /\ exc = "relay"
    /\ rpc = "done" /\ spc = "failed" /\ conn = "closed_ok"
    /\ nread > 0 /\ data = nread
    /\ in_stream \in ReleaseOutcomes /\ out_stream \in ReleaseOutcomes

\* C21: no audio frame goes on the wire between the start and the return of
\* an invocation: the step of the handler that invokes the capability of an
\* entry leaves the frames on the wire as they are, and a step that puts a
\* frame on the wire is no step of audio_receiver or its handler, which
\* stays where it is suspended.
C21_NoFrameDuringInvocation ==
    [][/\ (rpc = "dispatch" /\ idx \in 1..Len(decoded)
           /\ rpc' \in {"send_reply", "send_err"})
          => AudioOn(wire') = AudioOn(wire)
       /\ Len(AudioOn(wire')) > Len(AudioOn(wire))
          => /\ rpc' = rpc
             /\ <<decoded', idx', locals', pending'>> = <<decoded, idx, locals, pending>>]_vars

\* the invocation of the first entry returned while audio_sender held a
\* frame it had read: the frame is not on the wire, the reply not yet sent
C21_Witness ==
    /\ rpc = "send_reply" /\ conn = "open" /\ idx = 1
    /\ spc = "send" /\ data = nread
    /\ Len(AudioOn(wire)) = nread - 1
    /\ RepliesAfter(wire, mark) = <<>>

\* C22: the loop of _fetch_transactions ends whatever the backend answers:
\* a call that has started eventually returns or raises; a round that does
\* not end the loop leaves a strictly larger offset for the next request;
\* and a round whose response brings the collected transactions up to the
\* reported total ends the loop.
C22_PaginationTerminates ==
    /\ (tool.fn = "_fetch_transactions") ~> (tool.out # NoOut)
    /\ [][(tool.fn = "_fetch_transactions" /\ tool' # tool)
            => /\ tool'.out = NoOut => tool'.arg.offset > tool.arg.offset
               /\ tool'.arg.collected >= tool'.arg.total => tool'.out # NoOut]_vars

\* two requests were made with offset 0: the backend answered both with no
\* transactions and a total of 1, and the loop is about to ask again
C22_Witness ==
    /\ tool.fn = "_fetch_transactions" /\ tool.out = NoOut
    /\ tool.arg = [offset |-> 0, collected |-> 0, total |-> 1, requests |-> 0]

\* C4: on every exit path of run_agent, when it has finished, every device
\* handle that was acquired has had its release attempted.
C4_ReleaseOnEveryExit ==
    mpc \in {"returned", "exited"} => (in_stream # "open" /\ out_stream # "open")

\* the second device could not be acquired: the first one was released
C4_Witness ==
    mpc = "returned" /\ exc = "startup" /\ in_stream \in ReleaseOutcomes
        /\ out_stream = "None"

\* the entry the handler is at has a name that FUNCTION_MAP lacks
UnknownEntry ==
    /\ idx \in 1..Len(decoded)
    /\ decoded[idx].object
    /\ decoded[idx].name \notin FUNCTION_MAP

\* the receiver moves in this step, and not by being cancelled
ReceiverSteps == rpc' # rpc /\ rpc' # "cancelled"

\* C6: an entry with an unknown name raises nothing: its reply echoes its id
\* and name, the content decodes to an error that names the unknown name,
\* and once the reply is sent the handler goes on with the next entry.
C6_UnknownFunctionReply ==
    [][/\ (rpc = "dispatch" /\ UnknownEntry /\ ReceiverSteps)
            => /\ rpc' = "send_reply"
               /\ LET r == json_loads(pending'.body)
                  IN  /\ r.type = "FunctionCallResponse"
                      /\ r.id = decoded[idx].id
                      /\ r.name = decoded[idx].name
                      /\ json_loads(r.content).key = "error"
                      /\ json_loads(r.content).about = decoded[idx].name
       /\ (rpc = "send_reply" /\ UnknownEntry /\ conn = "open" /\ ReceiverSteps)
            => /\ wire' = Append(wire, [msg |-> pending, part |-> 1, of |-> 1])
               /\ rpc' = "dispatch"
               /\ idx' = idx + 1
               /\ decoded' = decoded]_vars

\* the reply to the unknown name is on the wire and the next entry is at hand
C6_Witness ==
    /\ rpc = "send_reply"
    /\ idx = 2
    /\ decoded[1] = EntryUnknown
    /\ wire # <<>>
    /\ IsReply(wire[Len(wire)])
    /\ json_loads(wire[Len(wire)].msg.body).name = "get_weather"
    /\ json_loads(json_loads(wire[Len(wire)].msg.body).content).about = "get_weather"

\* C7: the Configuration Document is the first write to the connection and
\* is written once; no relay exists before it has been written.
C7_ConfigFirstAndOnce ==
    /\ wire # <<>> => IsConfig(wire[1])
    /\ \A i \in 2..Len(wire) : ~IsConfig(wire[i])
    /\ (spc # "idle" \/ rpc # "idle") => wire # <<>>

\* a frame and a reply follow the configuration
C7_Witness ==
    /\ Len(wire) >= 3
    /\ IsConfig(wire[1])
    /\ \E i, j \in 2..Len(wire) : IsAudio(wire[i]) /\ IsReply(wire[j])

C9_FramesInOrder ==
    LET sent == AudioOn(wire)
    IN  /\ \A i \in 1..Len(sent) : sent[i] = i
        /\ Len(sent) <= nread
        /\ nread <= Len(sent) + 1
        /\ spc = "read" => Len(sent) = nread

\* two frames on the wire with a reply between them
C9_Witness ==
    /\ AudioOn(wire) = <<1, 2>>
    /\ \E i, j, k \in 1..Len(wire) :
         i < j /\ j < k /\ IsAudio(wire[i]) /\ IsReply(wire[j]) /\ IsAudio(wire[k])

Failed == {"stop_failed", "close_failed"}

\* C10: in the teardown a failed release of one device leaves the release
\* of the other attempted, and no failure of a release leaves run_agent.
C10_IndependentReleases ==
    /\ (mpc \in {"returned", "exited"} /\ in_stream \in Failed) => out_stream # "open"
    /\ (mpc \in {"returned", "exited"} /\ out_stream \in Failed) => in_stream # "open"
    /\ exc # "release"

\* the input device failed to stop and the output device was released
C10_Witness ==
    mpc = "returned" /\ in_stream = "stop_failed" /\ out_stream = "released"

====
